---- MODULE Spec2Model ----
(***************************************************************************)
(* The batched stack walker of src/hotspot/share/prims/stackwalk.cpp:      *)
(* StackWalk::walk / fetchFirstBatch (begin), StackWalk::fetchNextBatch    *)
(* (continue_batch), StackWalk::setContinuation (rebind_continuation),     *)
(* StackWalk::fill_in_frames (the batch decoder), the two frame streams    *)
(* (JavaFrameStream = class-only/plain cursor, LiveFrameStream = live      *)
(* cursor) and the magic handshake of BaseFrameStream (the identity guard).*)
(*                                                                         *)
(* One walk of one stack is modelled.  The stack, the VM flag              *)
(* ShowHiddenFrames and every argument of every call are drawn from        *)
(* bounded sets.  A frame is named by its position in the stack, 1 being   *)
(* the top frame; position 0 stands for "no frame" (at_end / _jvf == NULL).*)
(***************************************************************************)
EXTENDS Integers, Sequences, FiniteSets, TLC

\* ------------------------------------------------------------------ bounds
MaxDepth == 3        \* frames on the walked stack
MaxSkip  == 1        \* skip_frames of walk
MaxBatch == 2        \* frame_count of walk / fetchNextBatch
MaxStart == 2        \* start_index of walk / fetchNextBatch
MaxRebind == 1       \* successful setContinuation calls per walk
MaxSlots == 3        \* slots of a live frame
MaxDeepSkip == 2     \* skip_frames of a walk that skips more than one frame

\* ------------------------------------------------------------- vocabulary
NULL == "NULL"
Threads == {"t1", "t2"}              \* JavaThread / its threadObj
Owner == "t1"                        \* the thread that calls walk
Scopes == {"S1", "S2"}               \* ContinuationScope objects
magic_pos == 0                       \* slot of frames_array reserved for the guard
BufLen == MaxStart + MaxBatch        \* frames_array->length()
Unfilled == "unfilled"               \* the reserved slot as the caller left it
\* a frame slot as the caller left it
Preallocated == [frame |-> 0, cont |-> 0, live |-> FALSE]

NoError == "none"
NullBuffer == "NullBuffer"                                  \* NullPointerException
CorruptedBuffer == "CorruptedBuffer"                        \* InternalError, corrupted buffers
UnsupportedCallerSensitive == "UnsupportedCallerSensitive"  \* UnsupportedOperationException
DecodeFailure == "DecodeFailure"                            \* InternalError, decode failed
OrchestrationError == "OrchestrationError"                  \* exception thrown by doStackWalk
InternalDecodeError == "InternalDecodeError"                \* InternalError, Unexpected StackValue type
Crash == "Crash"                                            \* NULL dereference, advance of an exhausted stream
Undefined == "Undefined"                                    \* use of a destroyed stream object

\* ------------------------------------------------------------------ frames
\* holder: the method's declaring class; method: whether stream.method() is
\* non-NULL; entry: the frame marks a continuation entry (its continuation
\* has scope `scope`).
Frame(h, m, hid, cs, e, sc) ==
  [holder |-> h, method |-> m, hidden |-> hid, caller_sensitive |-> cs,
   entry |-> e, scope |-> sc]

FApp      == Frame("App", TRUE, FALSE, FALSE, FALSE, NULL)
FHidden   == Frame("App", TRUE, TRUE, FALSE, FALSE, NULL)
FSensitive == Frame("App", TRUE, FALSE, TRUE, FALSE, NULL)
FNoMethod == Frame(NULL, FALSE, FALSE, FALSE, FALSE, NULL)
FWalker   == Frame("StackWalker", TRUE, FALSE, FALSE, FALSE, NULL)
FAbstract == Frame("AbstractStackWalker", TRUE, FALSE, FALSE, FALSE, NULL)
FSubWalker == Frame("StackFrameTraverser", TRUE, FALSE, FALSE, FALSE, NULL)
FEntry1   == Frame("Continuation", TRUE, FALSE, FALSE, TRUE, "S1")
FEntry2   == Frame("Continuation", TRUE, FALSE, FALSE, TRUE, "S2")

\* The stacks are drawn from five families of frame kinds: hidden and
\* caller-sensitive frames below the walker's frames, frames without a
\* method, the walker's own class hierarchy, continuation entries, and the
\* walker's frames on top of a continuation.
DecodeKinds == {FApp, FHidden, FSensitive, FWalker}
NoMethodKinds == {FApp, FHidden, FNoMethod}
DriverKinds == {FApp, FAbstract, FSubWalker}
ContKinds == {FApp, FEntry1, FEntry2}
MountedKinds == {FApp, FWalker, FEntry1}

\* InstanceKlass::super()
Super(h) == IF h = "StackFrameTraverser" THEN "AbstractStackWalker" ELSE "Object"

\* Below a continuation-entry frame lies the frame that ran the
\* continuation: an entry frame is never the bottom frame, and never sits
\* directly on another entry frame.
WellFormed(st) ==
  \A p \in 1..Len(st) : st[p].entry => p < Len(st) /\ ~st[p + 1].entry

StacksOver(kinds, n) ==
  {st \in UNION {[1..k -> kinds] : k \in 0..n} : WellFormed(st)}
\* Two nested continuations take four frames.
StacksUpTo(n) ==
  StacksOver(DecodeKinds, n) \cup StacksOver(NoMethodKinds, n)
    \cup StacksOver(DriverKinds, n) \cup StacksOver(ContKinds, n + 1)
    \cup StacksOver(MountedKinds, n + 1)

\* ------------------------------------------------------------------- modes
\* The mode bits read by the walker.
Mode(nmi, gcc, shf, live) ==
  [need_method_info |-> nmi, get_caller_class |-> gcc,
   skip_hidden_frames |-> shf, live_frame_info |-> live]

Modes ==
  {Mode(TRUE, FALSE, TRUE, FALSE),     \* StackWalker default
   Mode(TRUE, FALSE, FALSE, FALSE),    \* SHOW_HIDDEN_FRAMES
   Mode(FALSE, TRUE, TRUE, FALSE),     \* getCallerClass: class references only
   Mode(TRUE, FALSE, TRUE, TRUE)}      \* live stack frames

need_method_info(mode) == mode.need_method_info
get_caller_class(mode) == mode.get_caller_class
skip_hidden_frames(mode) == mode.skip_hidden_frames
live_frame_info(mode) == mode.live_frame_info

VARIABLES
  stack,             \* the walked stack, top frame first
  ShowHiddenFrames,  \* the VM flag
  pc,                \* "init": before walk; "callback": inside doStackWalk;
                     \* "done": walk has returned
  stream,            \* the BaseFrameStream of the walk
  frames_array,      \* the caller's buffer
  args,              \* what walk and doStackWalk were called with
  decoded,           \* positions decoded so far in this walk, in order
  rebinds,           \* successful setContinuation calls so far
  last,              \* the last call and its outcome
  values,            \* the StackValueCollection of a live frame (locals or
                     \* operands), slot 0 first
  LP64,              \* whether the build is a 64-bit one (_LP64)
  boxed,             \* what values_to_object_array made of `values`
  nested             \* a second walk, begun by the owner inside doStackWalk

vars == <<stack, ShowHiddenFrames, pc, stream, frames_array, args, decoded,
          rebinds, last, values, LP64, boxed, nested>>

\* --------------------------------------------------------- continuations
\* The k-th continuation-entry frame from the top ends continuation k;
\* continuation k+1 is its parent.
EntryPositions == {p \in 1..Len(stack) : stack[p].entry}
NumConts == Cardinality(EntryPositions)
EntryPos(k) == CHOOSE p \in EntryPositions :
                 Cardinality({q \in EntryPositions : q <= p}) = k
\* java_lang_Continuation::scope / parent
ContScope(k) == stack[EntryPos(k)].scope
ContParent(k) == IF k < NumConts THEN k + 1 ELSE 0
\* Continuation::last_java_vframe(cont): the top frame of continuation k
TopFrame(k) == IF k <= 1 THEN (IF Len(stack) = 0 THEN 0 ELSE 1)
               ELSE IF EntryPos(k - 1) = Len(stack) THEN 0
               ELSE EntryPos(k - 1) + 1
\* thread->last_continuation()->cont_oop()
LastContinuation == IF NumConts > 0 THEN 1 ELSE 0
\* the continuation that frame p belongs to (0: the thread's own frames)
ContOf(p) == LET above == Cardinality({q \in EntryPositions : q < p})
             IN IF above < NumConts THEN above + 1 ELSE 0

\* ------------------------------------------------------------ the streams
address_value == 1      \* the address of the walk's stream, used as the magic token
other_address == 2      \* where another stream of the same thread would live
\* BaseFrameStream::address_value(): (jlong) this
address_of(s) == s.address

at_end(s) == s.pos = 0
method(s) == stack[s.pos]
java_sender(p) == IF p = Len(stack) THEN 0 ELSE p + 1

\* JavaFrameStream::next: _vfst.next()
vfst_next(s) == [s EXCEPT !.pos = java_sender(s.pos)]

\* JavaFrameStream::next: _vfst.method() once the stream has gone from s to
\* v: the method of the frame now current, or the one last read when the
\* stream has just become exhausted
vfst_method(s, v) == IF ~at_end(v) THEN stack[v.pos] ELSE stack[s.pos]

\* JavaFrameStream::next
JavaFrameStream_next(s) ==
  LET v == vfst_next(s)
      m == vfst_method(s, v)
  IN IF m.method /\ m.entry
     THEN IF at_end(v) THEN [v EXCEPT !.fault = TRUE]
          ELSE vfst_next(v)
     ELSE IF ~m.method THEN [v EXCEPT !.fault = TRUE]
     ELSE v

LiveFrameStream_next_unscoped(s) ==
  LET cont == s.cont
      isEntry == cont # 0 /\ stack[s.pos].entry
  IN [s EXCEPT !.cont = IF isEntry THEN ContParent(cont) ELSE cont,
               !.pos = java_sender(s.pos)]

LiveFrameStream_next_keeps_cont(s) ==
  LET cont == s.cont
      isEntry == cont # 0 /\ stack[s.pos].entry
      scope == IF isEntry THEN ContScope(cont) ELSE NULL
  IN IF isEntry /\ s.cont_scope # NULL /\ scope = s.cont_scope
     THEN [s EXCEPT !.pos = 0]
     ELSE [s EXCEPT !.pos = java_sender(s.pos)]

\* LiveFrameStream::next
LiveFrameStream_next(s) ==
  LET cont == s.cont
      isEntry == cont # 0 /\ stack[s.pos].entry
      scope == IF isEntry THEN ContScope(cont) ELSE NULL
      c2 == IF isEntry THEN ContParent(cont) ELSE cont
  IN IF isEntry /\ s.cont_scope # NULL /\ scope = s.cont_scope
     THEN [s EXCEPT !.cont = c2, !.pos = 0]
     ELSE [s EXCEPT !.cont = c2, !.pos = java_sender(s.pos)]

stream_next(s) ==
  IF s.kind = "Live" THEN LiveFrameStream_next(s) ELSE JavaFrameStream_next(s)

\* BaseFrameStream::cont(): the continuation recorded in a decoded frame
stream_cont(s) == IF s.kind = "Live" THEN s.cont ELSE s.continuation

\* JavaFrameStream / LiveFrameStream constructors
NewStream(mode, cont_scope, cont) ==
  [alive |-> TRUE,
   address |-> address_value,
   kind |-> IF live_frame_info(mode) THEN "Live" ELSE "Java",
   thread |-> Owner,
   continuation |-> cont,
   anchor |-> 0,
   need_method_info |-> need_method_info(mode),
   cont_scope |-> cont_scope,
   cont |-> IF ~live_frame_info(mode) THEN 0
            ELSE IF cont # 0 THEN cont ELSE LastContinuation,
   pos |-> IF cont = 0 THEN TopFrame(1) ELSE TopFrame(cont),
   fault |-> FALSE]

NoStream ==
  [alive |-> FALSE, address |-> address_value, kind |-> "Java", thread |-> Owner,
   continuation |-> 0,
   anchor |-> 0, need_method_info |-> TRUE, cont_scope |-> NULL, cont |-> 0,
   pos |-> 0, fault |-> FALSE]

\* The second walk: how far it is, its stream, its buffer (`shared`: it was
\* given the buffer of the first walk), the exception it ended with, and the
\* token and buffer of the last resuming call.
NoNested ==
  [pc |-> "init", stream |-> [NoStream EXCEPT !.address = other_address],
   frames_array |-> [i \in 0..(BufLen - 1) |->
                       IF i = magic_pos THEN Unfilled ELSE Preallocated],
   shared |-> FALSE, err |-> NoError,
   call |-> [magic |-> 0, buffer |-> "outer"]]

\* (BaseFrameStream*) (intptr_t) magic: the stream that lives at `magic`
StreamAt(magic) == IF magic = other_address THEN nested.stream ELSE stream

\* --------------------------------------------------------------- the guard
\* BaseFrameStream::check_magic
check_magic(s, buf) ==
  LET m1 == buf[magic_pos]
      m2 == s.anchor
  IN m1 = s.thread /\ m2 = address_of(s)

\* BaseFrameStream::is_valid_in
is_valid_in(s, thread, buf) == s.thread = thread /\ check_magic(s, buf)

setup_magic_without_anchor(s, buf) ==
  <<s, [buf EXCEPT ![magic_pos] = s.thread]>>

\* BaseFrameStream::setup_magic_on_entry: <<stream, frames_array>>
setup_magic_on_entry(s, buf) ==
  <<[s EXCEPT !.anchor = address_of(s)],
    [buf EXCEPT ![magic_pos] = s.thread]>>

cleanup_magic_keeps_slot(s, buf) ==
  <<check_magic(s, buf), [s EXCEPT !.anchor = 0], buf>>

\* BaseFrameStream::cleanup_magic_on_exit: <<ok, stream, frames_array>>
cleanup_magic_on_exit(s, buf) ==
  <<check_magic(s, buf),
    [s EXCEPT !.anchor = 0],
    [buf EXCEPT ![magic_pos] = NULL]>>

from_current_unvalidated(thread, magic, buf) ==
  LET m1 == buf[magic_pos]
  IN IF m1 # thread THEN {"null"}
     ELSE IF magic = 0 THEN {"null"}
     ELSE IF ~StreamAt(magic).alive THEN {"null", "undefined"}
     ELSE {"stream"}

\* BaseFrameStream::from_current: the outcomes of resolving `magic`:
\* "null" (NULL is returned), "stream" (the stream at `magic` is returned), or
\* "undefined" (the magic is cast to a pointer to a stream object that no
\* longer exists and that memory is read).
from_current(thread, magic, buf) ==
  LET m1 == buf[magic_pos]
  IN IF m1 # thread THEN {"null"}
     ELSE IF magic = 0 THEN {"null"}
     ELSE IF ~StreamAt(magic).alive THEN {"null", "undefined"}
     ELSE IF ~is_valid_in(StreamAt(magic), thread, buf) THEN {"null"}
     ELSE {"stream"}

\* ------------------------------------------------- boxing of live slots
\* BasicType of a StackValue
T_INT == "T_INT"
T_LONG == "T_LONG"
T_FLOAT == "T_FLOAT"
T_DOUBLE == "T_DOUBLE"
T_BYTE == "T_BYTE"
T_SHORT == "T_SHORT"
T_CHAR == "T_CHAR"
T_BOOLEAN == "T_BOOLEAN"
T_OBJECT == "T_OBJECT"
T_CONFLICT == "T_CONFLICT"

\* A StackValue: its type, the machine word it holds (get_int) and the
\* reference it holds (get_obj).
StackValue(t, w, o) == [type |-> t, word |-> w, obj |-> o]

\* a reference held in an Object[] element; NullRef is the NULL the array
\* is created with
Ref(o) == [ref |-> o]
NullRef == Ref(NULL)
\* LiveStackFrame.asPrimitive(int) / asPrimitive(long): a PrimitiveSlot
PrimitiveSlot(width, v) == [prim |-> width, value |-> v]

\* The number of values of a jint, scaled down from 2^32: a machine word of
\* a 64-bit build holds values outside the jint range.
jint_range == 256
\* (jint) of a machine word
jint(w) == LET m == w % jint_range
           IN IF m >= jint_range \div 2 THEN m - jint_range ELSE m

\* StackValueCollection::at, 0-based; no call of the code reads outside the
\* collection
at(vs, i) == IF i \in 0..(Len(vs) - 1) THEN vs[i + 1]
             ELSE StackValue("out of range", 0, NULL)
\* StackValueCollection::int_at
int_at(vs, i) == jint(at(vs, i).word)
\* StackValueCollection::long_at on a 64-bit build: the slot after `slot`
long_at(vs, slot) == at(vs, slot + 1).word
\* StackValueCollection::obj_at
obj_at(vs, i) == at(vs, i).obj

conflict_left_null(lp64) == [err |-> NoError, obj |-> NullRef]

\* create_primitive_slot_instance, case T_CONFLICT: "put a non-null slot"
conflict_placeholder(lp64) ==
  [err |-> NoError,
   obj |-> IF lp64 THEN PrimitiveSlot("long", 0) ELSE PrimitiveSlot("int", 0)]

\* LiveFrameStream::create_primitive_slot_instance
create_primitive_slot_instance(vs, i, type, lp64) ==
  IF type = T_INT
  THEN [err |-> NoError, obj |-> PrimitiveSlot("int", int_at(vs, i))]
  ELSE IF type = T_LONG
  THEN [err |-> NoError, obj |-> PrimitiveSlot("long", long_at(vs, i))]
  ELSE IF type \in {T_FLOAT, T_DOUBLE, T_BYTE, T_SHORT, T_CHAR, T_BOOLEAN}
  THEN [err |-> InternalDecodeError, obj |-> NullRef]
  ELSE IF type = T_OBJECT
  THEN [err |-> NoError, obj |-> Ref(obj_at(vs, i))]
  ELSE IF type = T_CONFLICT
  THEN conflict_placeholder(lp64)
  ELSE [err |-> Crash, obj |-> NullRef]          \* ShouldNotReachHere

wide_slot_unmoved(i, type, lp64) ==
  IF lp64 /\ type # T_OBJECT /\ type # T_CONFLICT
  THEN [type |-> T_LONG, index |-> i]
  ELSE [type |-> type, index |-> i]

\* values_to_object_array, #ifdef _LP64: every slot that is neither an
\* object nor a conflict is read as a long, at the index before it
wide_slot(i, type, lp64) ==
  IF lp64 /\ type # T_OBJECT /\ type # T_CONFLICT
  THEN [type |-> T_LONG, index |-> i - 1]
  ELSE [type |-> type, index |-> i]

\* LiveFrameStream::values_to_object_array, from slot i on; `array` is the
\* Object[] built so far
RECURSIVE box_from(_, _, _, _)
box_from(vs, i, array, lp64) ==
  IF i >= Len(vs) THEN [err |-> NoError, array |-> array]
  ELSE LET st == at(vs, i)
           w == wide_slot(i, st.type, lp64)
           r == create_primitive_slot_instance(vs, w.index, w.type, lp64)
       IN IF r.err # NoError THEN [err |-> r.err, array |-> <<>>]
          ELSE box_from(vs, i + 1,
                        IF r.obj # NullRef THEN [array EXCEPT ![i + 1] = r.obj]
                        ELSE array,
                        lp64)

values_to_object_array(vs, lp64) ==
  box_from(vs, 0, [i \in 1..Len(vs) |-> NullRef], lp64)

NotBoxed == [done |-> FALSE, err |-> NoError, array |-> <<>>]

\* ------------------------------------------------------------ the decoder
fill_frame_one_off(s, index, buf, m) ==
  [buf EXCEPT ![index + 1] = [mirror |-> m.holder]]

\* JavaFrameStream::fill_frame / LiveFrameStream::fill_frame
fill_frame(s, index, buf, m) ==
  IF s.kind = "Java" /\ ~s.need_method_info
  THEN [buf EXCEPT ![index] = [mirror |-> m.holder]]
  ELSE [buf EXCEPT ![index] =
          [frame |-> s.pos, cont |-> stream_cont(s), live |-> s.kind = "Live"]]

\* LiveFrameStream::fill_live_stackframe: the exception it ends with, after
\* fill_stackframe has filled the frame's slot; `values` are the locals of
\* every frame, and empty locals are not boxed
fill_live_stackframe(s) ==
  IF s.kind = "Live" /\ values # <<>>
  THEN values_to_object_array(values, LP64).err
  ELSE NoError

suppressed_never(mode, m) == FALSE

\* fill_in_frames: the frames that are passed over
suppressed(mode, m) ==
  ~ShowHiddenFrames /\ (skip_hidden_frames(mode) \/ get_caller_class(mode))
    /\ m.hidden

caller_sensitive_second(mode, index, start_index, m) ==
  ~need_method_info(mode) /\ get_caller_class(mode)
    /\ index = start_index + 1 /\ m.caller_sensitive

caller_sensitive_any(mode, index, start_index, m) ==
  ~need_method_info(mode) /\ get_caller_class(mode) /\ m.caller_sensitive

\* fill_in_frames: the caller-sensitive test
caller_sensitive_first(mode, index, start_index, m) ==
  ~need_method_info(mode) /\ get_caller_class(mode)
    /\ index = start_index /\ m.caller_sensitive

batch_full_late(frames_decoded, max_nframes) == frames_decoded > max_nframes

\* fill_in_frames: if (++frames_decoded >= max_nframes) break, with
\* frames_decoded already incremented
batch_full(frames_decoded, max_nframes) == frames_decoded >= max_nframes

break_after_next(s) == stream_next(s)

\* fill_in_frames: break leaves the loop without running its stream.next()
break_loop(s) == s

\* StackWalk::fill_in_frames, from the loop's condition on.
RECURSIVE fill_loop(_, _, _, _, _, _, _, _)
fill_loop(mode, s, max_nframes, start_index, buf, end_index, frames_decoded, written) ==
  IF at_end(s)
  THEN [stream |-> s, buf |-> buf, end_index |-> end_index,
        n |-> frames_decoded, written |-> written, err |-> NoError]
  ELSE
    LET m == method(s) IN
    IF ~m.method \/ suppressed(mode, m)
    THEN fill_loop(mode, stream_next(s), max_nframes, start_index, buf,
                   end_index, frames_decoded, written)
    ELSE
      LET index == end_index IN
      IF caller_sensitive_first(mode, index, start_index, m)
      THEN [stream |-> s, buf |-> buf, end_index |-> end_index + 1,
            n |-> frames_decoded, written |-> written,
            err |-> UnsupportedCallerSensitive]
      ELSE
        LET buf2 == fill_frame(s, index, buf, m)
            w2 == Append(written, s.pos)
        IN IF fill_live_stackframe(s) # NoError
           THEN [stream |-> s, buf |-> buf2, end_index |-> end_index + 1,
                 n |-> frames_decoded, written |-> written,
                 err |-> fill_live_stackframe(s)]
           ELSE
           IF batch_full(frames_decoded + 1, max_nframes)
           THEN [stream |-> break_loop(s), buf |-> buf2,
                 end_index |-> end_index + 1,
                 n |-> frames_decoded + 1, written |-> w2, err |-> NoError]
           ELSE fill_loop(mode, stream_next(s), max_nframes, start_index, buf2,
                          end_index + 1, frames_decoded + 1, w2)

fill_in_frames(mode, s, max_nframes, start_index, buf) ==
  fill_loop(mode, s, max_nframes, start_index, buf, start_index, 0, <<>>)

\* ------------------------------------------------------------------- begin
\* fetchFirstBatch: the frames of the walker's own classes
IsDriver(ik) ==
  ~(ik # "StackWalker" /\ ik # "AbstractStackWalker"
    /\ Super(ik) # "AbstractStackWalker")

skip_drivers_none(s) == s

\* fetchFirstBatch: while (!at_end) { if the holder is no walker class
\* break; next(); }
RECURSIVE skip_drivers(_)
skip_drivers(s) ==
  IF at_end(s) THEN s
  ELSE IF ~method(s).method THEN [s EXCEPT !.fault = TRUE]
  ELSE IF ~IsDriver(method(s).holder) THEN s
  ELSE skip_drivers(stream_next(s))

RECURSIVE skip_requested_visible(_, _, _)
skip_requested_visible(s, n, skip_frames) ==
  IF n < skip_frames /\ ~at_end(s)
  THEN skip_requested_visible(stream_next(s),
         IF method(s).hidden \/ ~method(s).method THEN n ELSE n + 1,
         skip_frames)
  ELSE s

\* fetchFirstBatch: for (n = 0; n < skip_frames && !at_end; next(), n++)
RECURSIVE skip_requested(_, _, _)
skip_requested(s, n, skip_frames) ==
  IF n < skip_frames /\ ~at_end(s)
  THEN skip_requested(stream_next(s), n + 1, skip_frames)
  ELSE s

NoArgs == [mode |-> Mode(TRUE, FALSE, TRUE, FALSE), magic |-> 0, skip_frames |-> 0,
           frame_count |-> 0, start_index |-> 0, end_index |-> 0,
           continuation |-> 0]

\* What a call leaves in `last`: the call, its arguments, the exception it
\* ended with, what its fill (if it ran one) did, what walk returned,
\* whether the call was given a buffer, and what cleanup_magic_on_exit
\* returned.
NoFill == [entered |-> FALSE, cursor |-> NoStream, n |-> 0, written |-> <<>>,
           steps |-> <<>>]

Outcome(op, thread, count, start, end, err, fill) ==
  [op |-> op, thread |-> thread, frame_count |-> count,
   start_index |-> start, end_index |-> end, err |-> err, fill |-> fill,
   result |-> NULL, buffer |-> "given", ok |-> TRUE]

WalkerInit(stacks) ==
  /\ stack \in stacks
  \* the flag is read only when a hidden frame is met
  /\ ShowHiddenFrames \in
       IF \E p \in 1..Len(stack) : stack[p].hidden THEN BOOLEAN ELSE {FALSE}
  /\ pc = "init"
  /\ stream = NoStream
  /\ frames_array = [i \in 0..(BufLen - 1) |->
                       IF i = magic_pos THEN Unfilled ELSE Preallocated]
  /\ args = NoArgs
  /\ decoded = <<>>
  /\ rebinds = 0
  /\ last = Outcome("none", Owner, 0, 0, 0, NoError, NoFill)
  /\ nested = NoNested

\* no live frame is boxed while the walker's entry points are exercised
InitWith(stacks) ==
  /\ WalkerInit(stacks)
  /\ values = <<>>
  /\ LP64 = TRUE
  /\ boxed = NotBoxed

\* walk and JavaFrameStream::next read stream.method() without a NULL test
\* (fetchFirstBatch's first loop, JavaFrameStream::next): a stack on which
\* they would meet a frame without a method is no input of walk.
MethodsResolvable(mode) ==
  IF live_frame_info(mode)
  THEN LET firstApp == {p \in 1..Len(stack) :
                          /\ ~(stack[p].method /\ IsDriver(stack[p].holder))
                          /\ \A q \in 1..(p - 1) :
                               stack[q].method /\ IsDriver(stack[q].holder)}
       IN \A p \in firstApp : stack[p].method
  ELSE \A p \in 1..Len(stack) : stack[p].method

first_fill_always(s) == TRUE

\* fetchFirstBatch: if (!stream.at_end()) before the first fill
first_fill_attempted(s) == ~at_end(s)

\* fetchFirstBatch: if (numFrames < 1) throw
first_decode_failed(numFrames) == numFrames < 1

\* fetchFirstBatch up to the call of doStackWalk
fetchFirstBatch(s0, mode, skip_frames, frame_count, start_index, buf) ==
  LET s1 == skip_drivers(s0)
      s2 == IF s1.fault THEN s1 ELSE skip_requested(s1, 0, skip_frames)
      entered == ~s2.fault /\ first_fill_attempted(s2)
      f == IF entered
           THEN fill_in_frames(mode, s2, frame_count, start_index, buf)
           ELSE [stream |-> s2, buf |-> buf, end_index |-> start_index,
                 n |-> 0, written |-> <<>>, err |-> NoError]
  IN [stream |-> f.stream, buf |-> f.buf, end_index |-> f.end_index,
      fill |-> [entered |-> entered, cursor |-> s2, n |-> f.n,
                written |-> f.written,
                steps |-> IF entered THEN <<"fill_in_frames">> ELSE <<>>],
      err |-> IF f.stream.fault THEN Crash
              ELSE IF f.err # NoError THEN f.err
              ELSE IF entered /\ first_decode_failed(f.n) THEN DecodeFailure
              ELSE NoError]

call_args_without_end(s, skip_frames, frame_count, start_index, end_index) ==
  [magic |-> address_of(s), skip_frames |-> skip_frames,
   frame_count |-> frame_count, start_index |-> start_index,
   end_index |-> start_index]

\* fetchFirstBatch: the JavaCallArguments of doStackWalk
call_args(s, skip_frames, frame_count, start_index, end_index) ==
  [magic |-> address_of(s), skip_frames |-> skip_frames,
   frame_count |-> frame_count, start_index |-> start_index,
   end_index |-> end_index]

\* StackWalk::walk with a buffer, up to the call of doStackWalk (or to the
\* exception that ends it).
Walk(mode, skip_frames, cont_scope, cont, frame_count, start_index) ==
  /\ pc = "init"
  /\ MethodsResolvable(mode)
  /\ start_index + frame_count <= BufLen
  /\ \E r \in {fetchFirstBatch(NewStream(mode, cont_scope, cont), mode,
                               skip_frames, frame_count, start_index,
                               frames_array)} :
       /\ decoded' = r.fill.written
       /\ last' = Outcome("walk", Owner, frame_count, start_index,
                          r.end_index, r.err, r.fill)
       /\ \E a \in {call_args(r.stream, skip_frames, frame_count, start_index,
                                r.end_index)} :
            \* no token is handed out when doStackWalk is not called
            args' = [mode |-> mode, continuation |-> cont]
                      @@ (IF r.err = NoError THEN a ELSE [a EXCEPT !.magic = 0])
       /\ IF r.err = NoError
          THEN \E g \in {setup_magic_on_entry(r.stream, r.buf)} :
                 /\ stream' = g[1]
                 /\ frames_array' = g[2]
                 /\ pc' = "callback"
          ELSE /\ stream' = [r.stream EXCEPT !.alive = FALSE]
               /\ frames_array' = r.buf
               /\ pc' = IF r.err = Crash THEN "crashed" ELSE "done"
  /\ UNCHANGED <<nested, values, LP64, boxed, stack, ShowHiddenFrames, rebinds>>

\* StackWalk::walk without a buffer
WalkNullBuffer ==
  /\ pc = "init"
  /\ pc' = "done"
  /\ last' = [Outcome("walk", Owner, 0, 0, 0, NullBuffer, NoFill)
                EXCEPT !.buffer = "null"]
  /\ UNCHANGED <<nested, values, LP64, boxed,
                 stack, ShowHiddenFrames, stream, frames_array, args, decoded,
                 rebinds>>

\* ---------------------------------------------------------- continue_batch
finish_processing_skipped(steps) == steps

\* fetchNextBatch: StackWatermarkSet::finish_processing, the flush of the
\* deferred processing of the walked stack; `steps` are the steps the call
\* has taken so far
finish_processing(steps) == Append(steps, "finish_processing")

advance_not(s) == s

advance_stays_on_entry(s) == IF stack[s.pos].entry THEN s ELSE stream_next(s)

advance_twice(s) ==
  IF at_end(stream_next(s)) THEN stream_next(s)
  ELSE stream_next(stream_next(s))

\* fetchNextBatch: stream.next(), "advance past the last frame decoded in
\* previous batch"
advance_past_last(s) == stream_next(s)

later_decode_never_fails(n) == FALSE

\* fetchNextBatch: if (n < 1) throw
later_decode_failed(n) == n < 1

no_operation_never(frame_count) == FALSE

\* fetchNextBatch: if (frame_count <= 0) return end_index; "No operation."
no_operation(frame_count) == frame_count <= 0

\* fetchNextBatch once the stream is resolved and frame_count > 0
nextBatch(s, mode, frame_count, start_index, buf) ==
  IF at_end(s)
  THEN [stream |-> s, buf |-> buf, end_index |-> start_index, fill |-> NoFill,
        err |-> NoError]
  ELSE
    LET st1 == finish_processing(<<>>)
        s1 == advance_past_last(s)
        st2 == Append(st1, "next")
        entered == ~s1.fault /\ ~at_end(s1)
        f == IF entered
             THEN fill_in_frames(mode, s1, frame_count, start_index, buf)
             ELSE [stream |-> s1, buf |-> buf, end_index |-> start_index,
                   n |-> 0, written |-> <<>>, err |-> NoError]
    IN [stream |-> f.stream, buf |-> f.buf, end_index |-> f.end_index,
        fill |-> [entered |-> entered, cursor |-> s1, n |-> f.n,
                  written |-> f.written,
                  steps |-> IF entered THEN Append(st2, "fill_in_frames") ELSE st2],
        err |-> IF f.stream.fault THEN Crash
                ELSE IF f.err # NoError THEN f.err
                ELSE IF entered /\ later_decode_failed(f.n) THEN DecodeFailure
                ELSE NoError]

\* StackWalk::fetchNextBatch, called by `thread` with the walk's buffer
FetchNextBatch(thread, magic, frame_count, start_index) ==
  /\ pc \in {"callback", "done"}
  /\ frame_count <= 0 \/ start_index + frame_count <= BufLen
  /\ \E found \in from_current(thread, magic, frames_array) :
       IF found = "null"
       THEN /\ last' = Outcome("fetch", thread, frame_count, 0, 0,
                               CorruptedBuffer, NoFill)
            /\ UNCHANGED <<pc, stream, frames_array, decoded>>
       ELSE IF found = "undefined"
       THEN /\ last' = Outcome("fetch", thread, frame_count, 0, 0,
                               Undefined, NoFill)
            /\ UNCHANGED <<pc, stream, frames_array, decoded>>
       ELSE IF no_operation(frame_count)
       THEN /\ last' = Outcome("fetch", thread, frame_count, start_index,
                               start_index, NoError, NoFill)
            /\ UNCHANGED <<pc, stream, frames_array, decoded>>
       ELSE \E r \in {nextBatch(stream, args.mode, frame_count, start_index,
                                frames_array)} :
              /\ last' = Outcome("fetch", thread, frame_count, start_index,
                                 r.end_index, r.err, r.fill)
              /\ stream' = r.stream
              /\ frames_array' = r.buf
              /\ decoded' = decoded \o r.fill.written
              /\ pc' = IF r.err = Crash THEN "crashed" ELSE pc
  /\ UNCHANGED <<nested, values, LP64, boxed, stack, ShowHiddenFrames, args, rebinds>>

\* StackWalk::fetchNextBatch called without a buffer: from_current reads
\* slot magic_pos through the null handle before frames_array.is_null() is
\* tested.  The read of address zero either stops the VM or yields a value
\* that is not the caller's threadObj.
FetchNextBatchNullBuffer(thread, magic) ==
  /\ pc \in {"callback", "done"}
  /\ \E read \in {"fault", "garbage"} :
       /\ last' = [Outcome("fetch", thread, 0, 0, 0,
                           IF read = "fault" THEN Crash ELSE CorruptedBuffer,
                           NoFill)
                     EXCEPT !.buffer = "null"]
       /\ pc' = IF read = "fault" THEN "crashed" ELSE pc
  /\ UNCHANGED <<nested, values, LP64, boxed,
                 stack, ShowHiddenFrames, stream, frames_array, args, decoded,
                 rebinds>>

\* ----------------------------------------------------- rebind_continuation
\* JavaFrameStream::set_continuation / LiveFrameStream::set_continuation
set_continuation(s, cont) ==
  IF s.kind = "Live"
  THEN [s EXCEPT !.continuation = cont, !.pos = TopFrame(cont), !.cont = cont]
  ELSE [s EXCEPT !.continuation = cont, !.pos = TopFrame(cont)]

\* StackWalk::setContinuation, called by `thread` with the walk's buffer
SetContinuation(thread, magic, cont) ==
  /\ pc \in {"callback", "done"}
  /\ \E found \in from_current(thread, magic, frames_array) :
       IF found = "null"
       THEN /\ last' = Outcome("rebind", thread, 0, 0, 0, CorruptedBuffer, NoFill)
            /\ UNCHANGED <<pc, stream, rebinds>>
       ELSE IF found = "undefined"
       THEN /\ last' = Outcome("rebind", thread, 0, 0, 0, Undefined, NoFill)
            /\ UNCHANGED <<pc, stream, rebinds>>
       ELSE IF stream.continuation = 0
       \* BaseFrameStream::set_continuation stores through the handle the
       \* stream was built with, which is empty for a walk of the thread
       THEN /\ last' = Outcome("rebind", thread, 0, 0, 0, Crash, NoFill)
            /\ pc' = "crashed"
            /\ UNCHANGED <<stream, rebinds>>
       ELSE /\ rebinds < MaxRebind
            /\ last' = Outcome("rebind", thread, 0, 0, 0, NoError, NoFill)
            /\ stream' = set_continuation(stream, cont)
            /\ rebinds' = rebinds + 1
            /\ pc' = pc
  /\ UNCHANGED <<nested, values, LP64, boxed,
                 stack, ShowHiddenFrames, frames_array, args, decoded>>

\* StackWalk::setContinuation called without a buffer
SetContinuationNullBuffer(thread, magic) ==
  /\ pc \in {"callback", "done"}
  /\ last' = [Outcome("rebind", thread, 0, 0, 0, NullBuffer, NoFill)
                EXCEPT !.buffer = "null"]
  /\ UNCHANGED <<nested, values, LP64, boxed,
                 stack, ShowHiddenFrames, pc, stream, frames_array, args,
                 decoded, rebinds>>

\* ------------------------------------------------------------ orchestration
\* The orchestration code, or any code holding the buffer, stores into the
\* reserved slot.
MutateSlot(v) ==
  /\ pc \in {"callback", "done"}
  /\ frames_array[magic_pos] # v
  /\ frames_array' = [frames_array EXCEPT ![magic_pos] = v]
  /\ UNCHANGED <<nested, values, LP64, boxed,
                 stack, ShowHiddenFrames, pc, stream, args, decoded, rebinds, last>>

Results == {"r1", "r2"}       \* what doStackWalk can return

walk_result_unchecked(ok, thrown, result) ==
  IF thrown THEN [err |-> OrchestrationError, value |-> NULL]
  ELSE [err |-> NoError, value |-> result]

walk_result_corruption_first(ok, thrown, result) ==
  IF ~ok THEN [err |-> CorruptedBuffer, value |-> NULL]
  ELSE IF thrown THEN [err |-> OrchestrationError, value |-> NULL]
  ELSE [err |-> NoError, value |-> result]

\* fetchFirstBatch after cleanup_magic_on_exit: what walk ends with
walk_result(ok, thrown, result) ==
  IF thrown THEN [err |-> OrchestrationError, value |-> NULL]
  ELSE IF ~ok THEN [err |-> CorruptedBuffer, value |-> NULL]
  ELSE [err |-> NoError, value |-> result]

\* doStackWalk returns `result` (thrown: it ends with a pending exception
\* instead) and fetchFirstBatch runs to its end.
DoStackWalkReturns(thrown, result) ==
  /\ pc = "callback"
  /\ \E c \in {cleanup_magic_on_exit(stream, frames_array)} :
       /\ stream' = [c[2] EXCEPT !.alive = FALSE]
       /\ frames_array' = c[3]
       /\ \E w \in {walk_result(c[1], thrown, result)} :
            last' = [Outcome("return", Owner, 0, 0, 0, w.err, NoFill)
                       EXCEPT !.result = w.value, !.ok = c[1]]
  /\ pc' = "done"
  /\ UNCHANGED <<nested, values, LP64, boxed,
                 stack, ShowHiddenFrames, args, decoded, rebinds>>

CallbackReturn(thrown) == \E result \in Results : DoStackWalkReturns(thrown, result)

\* ------------------------------------------------------------- nested walk
\* The buffer a resuming call is given: that of the first walk ("outer") or
\* that of the second ("inner").
Buffers == {"outer", "inner"}
BufferOf(which) ==
  IF which = "outer" \/ nested.shared THEN frames_array ELSE nested.frames_array

\* StackWalk::walk called by the owner from inside doStackWalk, up to the
\* call of the second doStackWalk; its stream lives at other_address, and
\* its buffer is a buffer of its own or (shared) the buffer of the first walk
NestedWalk(frame_count, cont, shared) ==
  /\ pc = "callback" /\ nested.pc = "init"
  /\ MethodsResolvable(args.mode)
  /\ 1 + frame_count <= BufLen
  /\ \E r \in {fetchFirstBatch(
                  [NewStream(args.mode, NULL, cont) EXCEPT !.address = other_address],
                  args.mode, 0, frame_count, 1,
                  IF shared THEN frames_array ELSE nested.frames_array)} :
       /\ last' = Outcome("nested walk", Owner, frame_count, 1, r.end_index,
                          r.err, r.fill)
       /\ IF r.err = NoError
          THEN \E g \in {setup_magic_on_entry(r.stream, r.buf)} :
                 /\ nested' = [nested EXCEPT
                                 !.pc = "callback", !.stream = g[1],
                                 !.frames_array = IF shared THEN @ ELSE g[2],
                                 !.shared = shared]
                 /\ frames_array' = IF shared THEN g[2] ELSE frames_array
          ELSE /\ nested' = [nested EXCEPT
                               !.pc = "failed",
                               !.stream = [r.stream EXCEPT !.alive = FALSE],
                               !.frames_array = IF shared THEN @ ELSE r.buf,
                               !.shared = shared, !.err = r.err]
               /\ frames_array' = IF shared THEN r.buf ELSE frames_array
  /\ UNCHANGED <<values, LP64, boxed, stack, ShowHiddenFrames, pc, stream,
                 args, decoded, rebinds>>

\* the second doStackWalk returns (thrown: with a pending exception) and the
\* second fetchFirstBatch runs to its end
NestedReturn(thrown) ==
  /\ pc = "callback" /\ nested.pc = "callback"
  /\ \E c \in {cleanup_magic_on_exit(nested.stream, BufferOf("inner"))} :
       \E w \in {walk_result(c[1], thrown, "r1")} :
         /\ nested' = [nested EXCEPT
                         !.pc = "done",
                         !.stream = [c[2] EXCEPT !.alive = FALSE],
                         !.frames_array = IF nested.shared THEN @ ELSE c[3],
                         !.err = w.err]
         /\ frames_array' = IF nested.shared THEN c[3] ELSE frames_array
         /\ last' = Outcome("nested return", Owner, 0, 0, 0, w.err, NoFill)
  /\ UNCHANGED <<values, LP64, boxed, stack, ShowHiddenFrames, pc, stream,
                 args, decoded, rebinds>>

\* StackWalk::fetchNextBatch called by the owner, while the first walk is
\* suspended, with the token `magic` and the buffer `which`
FetchNextBatchOn(magic, which, frame_count) ==
  /\ pc = "callback"
  /\ 1 + frame_count <= BufLen
  /\ \E found \in from_current(Owner, magic, BufferOf(which)) :
       IF found \in {"null", "undefined"}
       THEN /\ last' = Outcome("fetch", Owner, frame_count, 0, 0,
                               IF found = "null" THEN CorruptedBuffer
                               ELSE Undefined,
                               NoFill)
            /\ nested' = [nested EXCEPT
                            !.call = [magic |-> magic, buffer |-> which]]
            /\ UNCHANGED <<pc, stream, frames_array, decoded>>
       ELSE \E r \in {nextBatch(StreamAt(magic), args.mode, frame_count, 1,
                                BufferOf(which))} :
              LET inner == magic = other_address
                  toInner == which = "inner" /\ ~nested.shared
              IN /\ last' = Outcome("fetch", Owner, frame_count, 1,
                                    r.end_index, r.err, r.fill)
                 /\ stream' = IF inner THEN stream ELSE r.stream
                 /\ frames_array' = IF toInner THEN frames_array ELSE r.buf
                 /\ nested' = [nested EXCEPT
                                 !.stream = IF inner THEN r.stream ELSE @,
                                 !.frames_array = IF toInner THEN r.buf ELSE @,
                                 !.call = [magic |-> magic, buffer |-> which]]
                 /\ decoded' = IF inner THEN decoded
                               ELSE decoded \o r.fill.written
                 /\ pc' = IF r.err = Crash THEN "crashed" ELSE pc
  /\ UNCHANGED <<values, LP64, boxed, stack, ShowHiddenFrames, args, rebinds>>

\* StackWalk::setContinuation called by the owner, while the first walk is
\* suspended, with the token `magic` and the buffer `which`
SetContinuationOn(magic, which, cont) ==
  /\ pc = "callback"
  /\ \E found \in from_current(Owner, magic, BufferOf(which)) :
       IF found \in {"null", "undefined"}
       THEN /\ last' = Outcome("rebind", Owner, 0, 0, 0,
                               IF found = "null" THEN CorruptedBuffer
                               ELSE Undefined,
                               NoFill)
            /\ UNCHANGED <<pc, stream, rebinds>>
            /\ nested' = [nested EXCEPT
                            !.call = [magic |-> magic, buffer |-> which]]
       ELSE IF StreamAt(magic).continuation = 0
       THEN /\ last' = Outcome("rebind", Owner, 0, 0, 0, Crash, NoFill)
            /\ pc' = "crashed"
            /\ UNCHANGED <<stream, rebinds>>
            /\ nested' = [nested EXCEPT
                            !.call = [magic |-> magic, buffer |-> which]]
       ELSE /\ rebinds < MaxRebind
            /\ last' = Outcome("rebind", Owner, 0, 0, 0, NoError, NoFill)
            /\ \E s \in {set_continuation(StreamAt(magic), cont)} :
                 /\ stream' = IF magic = other_address THEN stream ELSE s
                 /\ nested' = [nested EXCEPT
                                 !.stream = IF magic = other_address THEN s ELSE @,
                                 !.call = [magic |-> magic, buffer |-> which]]
            /\ rebinds' = rebinds + 1
            /\ pc' = pc
  /\ UNCHANGED <<values, LP64, boxed,
                 stack, ShowHiddenFrames, frames_array, args, decoded>>

SlotValues == Threads \cup {NULL, "junk"}
Magics == {0, address_value}

\* The walker driven by the code it was written for: the owning thread
\* resumes with the token it was given and leaves the reserved slot alone.
NextWalk ==
  \/ \E mode \in Modes, skip_frames \in 0..MaxSkip, frame_count \in 1..MaxBatch,
        start_index \in 1..MaxStart, cont \in 0..NumConts,
        cont_scope \in Scopes \cup {NULL} :
       /\ cont_scope # NULL => live_frame_info(mode)
       /\ Walk(mode, skip_frames, cont_scope, cont, frame_count, start_index)
  \/ \E frame_count \in 1..MaxBatch :
       /\ pc = "callback"
       /\ FetchNextBatch(Owner, address_value, frame_count, args.start_index)
  \/ \E cont \in 1..NumConts :
       /\ pc = "callback"
       /\ SetContinuation(Owner, address_value, cont)

InitWalk == InitWith(StacksUpTo(MaxDepth))
SpecWalk == InitWalk /\ [][NextWalk]_vars

\* The loop of doStackWalk: after walk it calls fetchNextBatch again and
\* again, until a call throws or returns an empty batch.
LoopEnded ==
  \/ pc # "callback"
  \/ last.err # NoError
  \/ last.op = "fetch" /\ last.end_index = last.start_index
FetchLoop ==
  \E frame_count \in 1..MaxBatch :
    /\ pc = "callback" /\ ~LoopEnded
    /\ FetchNextBatch(Owner, address_value, frame_count, args.start_index)
NextLoop ==
  \/ \E mode \in Modes, skip_frames \in 0..MaxSkip, frame_count \in 1..MaxBatch,
        start_index \in 1..MaxStart, cont \in 0..NumConts,
        cont_scope \in Scopes \cup {NULL} :
       /\ cont_scope # NULL => live_frame_info(mode)
       /\ Walk(mode, skip_frames, cont_scope, cont, frame_count, start_index)
  \/ FetchLoop
\* the loop goes on as long as it can
SpecLoop == InitWalk /\ [][NextLoop]_vars /\ WF_vars(FetchLoop)

\* walk alone, asked to skip up to MaxDeepSkip frames
NextSkip ==
  \E mode \in Modes, skip_frames \in 0..MaxDeepSkip, frame_count \in 1..MaxBatch,
     start_index \in 1..MaxStart, cont \in 0..NumConts,
     cont_scope \in Scopes \cup {NULL} :
    /\ cont_scope # NULL => live_frame_info(mode)
    /\ Walk(mode, skip_frames, cont_scope, cont, frame_count, start_index)
SpecSkip == InitWalk /\ [][NextSkip]_vars

\* The same walker over every arrangement of application frames and
\* continuation-entry frames, an entry frame at the bottom of the stack and
\* entry frames on top of each other included.
AnyStacks(kinds, n) == UNION {[1..k -> kinds] : k \in 0..n}
InitShapes == InitWith(AnyStacks(ContKinds, MaxDepth))
SpecShapes == InitShapes /\ [][NextWalk]_vars

GuardKinds == {FApp, FEntry1}
GuardModes == {Mode(TRUE, FALSE, TRUE, FALSE), Mode(TRUE, FALSE, TRUE, TRUE)}

\* The walker under any orchestration: any thread, any token, any content of
\* the reserved slot, during the callback and after walk has returned.  The
\* walked stacks are short and the walk starts at the top of the buffer.
Next ==
  \/ \E mode \in GuardModes, frame_count \in 1..MaxBatch, cont \in 0..NumConts :
       Walk(mode, 0, NULL, cont, frame_count, 1)
  \/ WalkNullBuffer
  \/ \E thread \in Threads, magic \in Magics, frame_count \in 0..MaxBatch :
       FetchNextBatch(thread, magic, frame_count, 1)
  \/ \E thread \in Threads, magic \in Magics, cont \in 1..NumConts :
       SetContinuation(thread, magic, cont)
  \/ \E v \in SlotValues : MutateSlot(v)
  \/ \E thrown \in BOOLEAN : CallbackReturn(thrown)
  \/ \E thread \in Threads, magic \in Magics :
       FetchNextBatchNullBuffer(thread, magic)
  \/ \E thread \in Threads, magic \in Magics :
       SetContinuationNullBuffer(thread, magic)

Init == InitWith(StacksOver(GuardKinds, MaxDepth))
Spec == Init /\ [][Next]_vars

\* Two walks of one thread: the owner begins a second walk inside
\* doStackWalk, with a buffer of its own or with the buffer of the first
\* walk, and resumes either walk with either token and either buffer.  The
\* second doStackWalk returns before the first does.
Tokens == {address_value, other_address}
NextNested ==
  \/ \E mode \in GuardModes, frame_count \in 1..MaxBatch, cont \in 0..NumConts :
       Walk(mode, 0, NULL, cont, frame_count, 1)
  \/ \E frame_count \in 1..MaxBatch, cont \in 0..NumConts, shared \in BOOLEAN :
       NestedWalk(frame_count, cont, shared)
  \/ \E thrown \in BOOLEAN : NestedReturn(thrown)
  \/ \E magic \in Tokens, which \in Buffers, frame_count \in 1..MaxBatch :
       FetchNextBatchOn(magic, which, frame_count)
  \/ \E magic \in Tokens, which \in Buffers, cont \in 1..NumConts :
       SetContinuationOn(magic, which, cont)
  \/ \E thrown \in BOOLEAN :
       /\ nested.pc # "callback"
       /\ CallbackReturn(thrown)

InitNested == InitWith(StacksOver(GuardKinds, MaxDepth - 1))
SpecNested == InitNested /\ [][NextNested]_vars

\* The walker over frames with locals, on both builds: a live walk boxes
\* the locals of every frame it decodes.
LiveKinds == {FApp, FHidden, FSensitive, FEntry1}
LiveValues ==
  {<<>>, <<StackValue(T_INT, 7, NULL)>>, <<StackValue(T_FLOAT, 7, NULL)>>}
InitLive ==
  /\ WalkerInit(StacksOver(LiveKinds, MaxDepth - 1))
  /\ LP64 \in BOOLEAN
  /\ values \in LiveValues
  /\ boxed = NotBoxed
SpecLive == InitLive /\ [][NextWalk]_vars

\* LiveFrameStream::fill_live_stackframe: the slots of the frame are boxed
FillLiveStackframe ==
  /\ ~boxed.done
  /\ \E r \in {values_to_object_array(values, LP64)} :
       boxed' = [done |-> TRUE, err |-> r.err, array |-> r.array]
  /\ UNCHANGED <<nested, values, LP64, stack, ShowHiddenFrames, pc, stream,
                 frames_array, args, decoded, rebinds, last>>

\* The slots a frame can hold.  A 32-bit build has no one-slot long.
WideWord == jint_range + 7        \* a word that does not fit a jint
Words(lp64) == IF lp64 THEN {0, WideWord, -1} ELSE {0, 7, -1}
Objects == {NULL, "o1"}
SlotTypes(lp64) ==
  IF lp64 THEN {T_INT, T_LONG, T_FLOAT, T_BOOLEAN} ELSE {T_INT, T_FLOAT, T_BOOLEAN}
StackValues(lp64) ==
  {StackValue(t, w, NULL) : t \in SlotTypes(lp64), w \in Words(lp64)}
    \cup {StackValue(T_OBJECT, 0, o) : o \in Objects}
    \cup {StackValue(T_CONFLICT, 0, NULL)}

InitBox ==
  /\ WalkerInit({<<>>})
  /\ LP64 \in BOOLEAN
  /\ values \in UNION {[1..n -> StackValues(LP64)] : n \in 0..MaxSlots}
  /\ boxed = NotBoxed
NextBox == FillLiveStackframe
SpecBox == InitBox /\ [][NextBox]_vars

\* ======================================================================
\* Properties
\* ======================================================================
\* The frames a cursor yields from state s on, in order.
RECURSIVE Path(_)
Path(s) == IF at_end(s) THEN <<>> ELSE <<s.pos>> \o Path(stream_next(s))

Take(seq, n) == SubSeq(seq, 1, IF n < Len(seq) THEN n ELSE Len(seq))
Increasing(seq) == \A i, j \in 1..Len(seq) : i < j => seq[i] < seq[j]

\* hidden-frame suppression is in effect for a fill in mode `mode`
SuppressionInEffect(mode) ==
  ~ShowHiddenFrames /\ (mode.skip_hidden_frames \/ mode.get_caller_class)
\* frame p is retained by a fill in mode `mode`
Kept(mode, p) ==
  stack[p].method /\ ~(SuppressionInEffect(mode) /\ stack[p].hidden)
KeptPath(mode, s) == SelectSeq(Path(s), LAMBDA p : Kept(mode, p))

LastIsFill == last.op \in {"walk", "fetch"} /\ last.fill.entered

\* C1: across one walk (walk, then fetchNextBatch calls on the same stream,
\* with no setContinuation in between) no frame position is decoded twice,
\* and the decoded positions, concatenated over the batches, are strictly
\* increasing in depth.
C1_NoFrameDecodedTwice == rebinds = 0 => Increasing(decoded)

C1_Witness ==
  /\ rebinds = 0 /\ last.op = "fetch" /\ last.err = NoError
  /\ Len(last.fill.written) >= 1 /\ Len(decoded) >= 3
  /\ \E p \in 1..Len(stack) : stack[p].hidden /\ decoded[1] < p /\ p < decoded[3]

\* C2: every fill writes at most max_nframes frames and at most as many as
\* there are retained frames from the cursor on, and the end index it
\* reports is the start index plus the number of frames written.
C2_BatchBounded ==
  /\ LastIsFill =>
       /\ last.fill.n <= last.frame_count
       /\ last.fill.n <= Cardinality({p \in last.fill.cursor.pos..Len(stack) :
                                        Kept(args.mode, p)})
       /\ last.fill.n = Len(last.fill.written)
  /\ (last.op \in {"walk", "fetch"} /\ last.err = NoError) =>
       last.end_index = last.start_index + last.fill.n

C2_Witness ==
  /\ LastIsFill /\ last.op = "fetch" /\ last.err = NoError
  /\ last.frame_count = 2 /\ last.fill.n = 2 /\ last.start_index = 2
  /\ last.end_index = 4 /\ ~at_end(stream) /\ stream.pos < Len(stack)

\* C7: walk with skip_frames at least the number of frames left below the
\* leading driver frames decodes nothing, raises no error, leaves the stream
\* exhausted and reports end_index = start_index.
DriverRun(from) ==
  Cardinality({p \in from..Len(stack) :
                 \A q \in from..p : stack[q].method /\ IsDriver(stack[q].holder)})
WalkTop == IF stream.continuation = 0 THEN TopFrame(1) ELSE TopFrame(stream.continuation)
RemainingAfterDrivers ==
  IF WalkTop = 0 THEN 0 ELSE Len(stack) - (WalkTop - 1) - DriverRun(WalkTop)

C7_SkipAllIsNoError ==
  (last.op = "walk" /\ last.err # NullBuffer
     /\ args.skip_frames >= RemainingAfterDrivers) =>
    /\ last.err = NoError
    /\ ~last.fill.entered /\ last.fill.n = 0 /\ decoded = <<>>
    /\ at_end(stream)
    /\ last.end_index = last.start_index
    /\ args.end_index = args.start_index
    /\ pc = "callback"

C7_Witness ==
  /\ last.op = "walk" /\ args.skip_frames >= RemainingAfterDrivers
  /\ RemainingAfterDrivers >= 1 /\ DriverRun(WalkTop) >= 1
  /\ last.err = NoError /\ at_end(stream)

\* C8: a fill entered with the cursor not exhausted that ends with zero
\* frames written makes the call fail with DecodeFailure, in walk and in
\* fetchNextBatch; a call returns zero frames without error only when no
\* fill was entered (the cursor was exhausted).
C8_ZeroFramesIsDecodeFailure ==
  /\ (LastIsFill /\ last.fill.n = 0 /\ last.err # UnsupportedCallerSensitive) =>
       last.err = DecodeFailure
  /\ last.err = DecodeFailure =>
       /\ LastIsFill /\ last.fill.n = 0
       /\ KeptPath(args.mode, last.fill.cursor) = <<>>
  /\ (last.op \in {"walk", "fetch"} /\ last.err = NoError /\ last.fill.n = 0) =>
       ~last.fill.entered

C8_Witness ==
  /\ last.op = "fetch" /\ last.err = DecodeFailure
  /\ Len(decoded) >= 1 /\ ~at_end(last.fill.cursor)

\* C9: with suppression in effect no hidden frame and no frame without a
\* method is written or counted; the frames written are the first
\* max_nframes retained frames the cursor yields, in stack order; with
\* suppression disabled hidden frames are written like any other frame.
C9_HiddenFramesSuppressed ==
  LastIsFill =>
    /\ last.fill.n = Len(last.fill.written)
    /\ last.err \in {NoError, DecodeFailure} =>
         last.fill.written =
           Take(KeptPath(args.mode, last.fill.cursor), last.frame_count)
    /\ \A i \in 1..Len(last.fill.written) :
         LET p == last.fill.written[i]
         IN stack[p].method /\ (SuppressionInEffect(args.mode) => ~stack[p].hidden)

C9_Witness ==
  /\ LastIsFill /\ last.op = "walk" /\ SuppressionInEffect(args.mode)
  /\ Len(stack) = 3 /\ stack[2].hidden /\ last.fill.written = <<1, 3>>

\* C10: a live walk scoped to S stops at the entry frame of the innermost
\* continuation whose scope is S: that frame is the last one it yields, and
\* no frame below it is ever current or decoded.
WalkOrigin == IF stream.continuation = 0 THEN LastContinuation ELSE stream.continuation
ScopeBoundary ==
  LET hits == {EntryPos(k) : k \in {j \in 1..NumConts :
                                      j >= WalkOrigin /\ ContScope(j) = stream.cont_scope}}
  IN IF WalkOrigin = 0 \/ hits = {} THEN 0
     ELSE CHOOSE p \in hits : \A q \in hits : p <= q

C10_ScopedWalkStopsAtBoundary ==
  (stream.kind = "Live" /\ stream.cont_scope # NULL /\ ScopeBoundary # 0) =>
    /\ stream.pos <= ScopeBoundary
    /\ last.op \in {"walk", "fetch"} =>
         \A i \in 1..Len(last.fill.written) : last.fill.written[i] <= ScopeBoundary

C10_Witness ==
  /\ stream.kind = "Live" /\ stream.cont_scope # NULL /\ NumConts = 2
  /\ ScopeBoundary = EntryPos(2) /\ ScopeBoundary < Len(stack)
  /\ last.op = "fetch" /\ last.err = NoError /\ at_end(stream)
  /\ Len(last.fill.written) >= 1
  /\ last.fill.written[Len(last.fill.written)] = ScopeBoundary

\* A call of fetchNextBatch or setContinuation by `thread` with `magic`
ResumeCall(thread, magic) ==
  \/ \E frame_count \in 0..MaxBatch, start_index \in 1..MaxStart :
       FetchNextBatch(thread, magic, frame_count, start_index)
  \/ \E cont \in 1..NumConts : SetContinuation(thread, magic, cont)

Rejected ==
  /\ last'.err = CorruptedBuffer
  /\ UNCHANGED <<pc, stream, frames_array, decoded, rebinds>>

\* C3: fetchNextBatch and setContinuation called by a thread that is not
\* the stream's owner, with the stream's token, fail with CorruptedBuffer
\* and leave the stream unchanged, whatever the batch size and whatever
\* the reserved slot holds.
C3_OtherThreadRejected ==
  [][\A thread \in Threads \ {Owner}, magic \in Magics :
       (stream.alive /\ ResumeCall(thread, magic)) => Rejected]_vars

C3_Witness ==
  /\ pc = "callback" /\ stream.alive /\ stream.anchor = address_value
  /\ last.op = "fetch" /\ last.thread # Owner /\ last.frame_count = 0
  /\ frames_array[magic_pos] = last.thread
  /\ last.err = CorruptedBuffer

\* C4: resolution fails closed: a resume call fails with CorruptedBuffer
\* whenever the reserved slot does not hold the owner's identity, whenever
\* the token is 0, and whenever the token names a stream that is no longer
\* suspended (a stale one, whose guard has been cleared).
C4_GuardFailsClosed ==
  [][\A thread \in Threads, magic \in {0, args.magic} :
       (/\ ResumeCall(thread, magic)
        /\ \/ frames_array[magic_pos] # Owner
           \/ magic = 0
           \/ ~stream.alive)
       => last'.err = CorruptedBuffer]_vars

\* C5: once walk has returned after installing the guard, the reserved
\* slot has been wiped and the anchor reset, and every later resume call
\* with the old token fails with CorruptedBuffer.
C5_NoResumeAfterReturn ==
  [][/\ (\E thrown \in BOOLEAN : CallbackReturn(thrown)) =>
          frames_array'[magic_pos] = NULL /\ stream'.anchor = 0
     /\ \A thread \in Threads :
          (pc = "done" /\ args.magic # 0 /\ ResumeCall(thread, args.magic))
          => last'.err = CorruptedBuffer]_vars

\* the fast path: class references only, for getCallerClass
FastPath(mode) == ~mode.need_method_info /\ mode.get_caller_class

\* C6 as stated: in fast-path mode a caller-sensitive first frame of the
\* first batch fails with UnsupportedCallerSensitive, and a caller-sensitive
\* frame at any later position of the walk never does.
C6_OnlyFirstFrameOfWalk ==
  /\ last.err = UnsupportedCallerSensitive => (last.op = "walk" /\ decoded = <<>>)
  /\ (last.op = "walk" /\ last.fill.entered /\ FastPath(args.mode)
        /\ KeptPath(args.mode, last.fill.cursor) # <<>>
        /\ stack[KeptPath(args.mode, last.fill.cursor)[1]].caller_sensitive)
     => last.err = UnsupportedCallerSensitive

\* C6 amended: in fast-path mode a fill, in walk or in fetchNextBatch, fails
\* with UnsupportedCallerSensitive exactly when the first frame it would
\* write is caller-sensitive; a caller-sensitive frame that is not the
\* first frame written of its batch never triggers the failure.
C6_FirstFrameOfBatch ==
  /\ last.err = UnsupportedCallerSensitive => (LastIsFill /\ last.fill.written = <<>>)
  /\ LastIsFill =>
       (last.err = UnsupportedCallerSensitive <=>
          /\ FastPath(args.mode)
          /\ KeptPath(args.mode, last.fill.cursor) # <<>>
          /\ stack[KeptPath(args.mode, last.fill.cursor)[1]].caller_sensitive)

C6_Witness ==
  /\ last.op = "fetch" /\ last.err = UnsupportedCallerSensitive
  /\ Len(decoded) = 2 /\ stack[decoded[2]].caller_sensitive

\* C11: in fetchNextBatch the flush of deferred stack processing comes
\* first: every advance of the stream and every fill of the call has the
\* flush earlier among the steps of that same call.
C11_FlushPrecedesAdvance ==
  last.op = "fetch" =>
    \A i \in 1..Len(last.fill.steps) :
      last.fill.steps[i] \in {"next", "fill_in_frames"} =>
        \E j \in 1..(i - 1) : last.fill.steps[j] = "finish_processing"

C11_Witness ==
  /\ last.op = "fetch" /\ last.err = NoError /\ Len(decoded) >= 3
  /\ last.fill.steps = <<"finish_processing", "next", "fill_in_frames">>
  /\ Len(last.fill.written) >= 1

\* what another stream of the same thread would leave in the reserved slot
OtherStream == [stream EXCEPT !.address = other_address, !.anchor = 0]
SlotInstalledBy(s) == setup_magic_on_entry(s, frames_array)[2][magic_pos]

C13_TeardownResult ==
  [][\A result \in Results :
       DoStackWalkReturns(FALSE, result) =>
         /\ frames_array'[magic_pos] = NULL /\ stream'.anchor = 0
         /\ IF check_magic(stream, frames_array)
            THEN last'.err = NoError /\ last'.result = result
            ELSE last'.err = CorruptedBuffer /\ last'.result = NULL]_vars

C13_Witness ==
  /\ pc = "done" /\ last.op = "return" /\ last.err = CorruptedBuffer
  /\ last.result = NULL /\ frames_array[magic_pos] = NULL /\ stream.anchor = 0
  /\ Len(decoded) >= 1

\* a call of one of the three entry points without a buffer
NullBufferCall ==
  \/ WalkNullBuffer
  \/ \E thread \in Threads, magic \in Magics :
       \/ FetchNextBatchNullBuffer(thread, magic)
       \/ SetContinuationNullBuffer(thread, magic)

\* C14: walk, fetchNextBatch and setContinuation called without a buffer
\* fail with NullBuffer and touch neither the guard, nor the stream, nor the
\* orchestration code.
C14_NullBufferRejected ==
  [][NullBufferCall =>
       /\ last'.err = NullBuffer
       /\ UNCHANGED <<stream, frames_array, decoded, rebinds>>]_vars

\* C15: walk and fetchNextBatch change no slot of the buffer other than
\* the reserved slot and the slots start_index .. end_index - 1 of their
\* fill; every slot written lies below start_index + frame_count and inside
\* the buffer, and a fill that ends without error has written every slot
\* of its range.
C15_OnlyBatchSlotsWritten ==
  [][/\ \A i \in 1..(BufLen - 1) :
          frames_array'[i] # frames_array[i] =>
            /\ last'.op \in {"walk", "fetch"} /\ last'.fill.entered
            /\ last'.start_index >= 1
            /\ last'.start_index <= i /\ i < last'.end_index
            /\ i < last'.start_index + last'.frame_count
     /\ (last' # last /\ last'.op \in {"walk", "fetch"} /\ last'.err = NoError) =>
          /\ last'.end_index <= BufLen
          /\ \A i \in last'.start_index..(last'.end_index - 1) :
               frames_array'[i] # Preallocated]_vars

C15_Witness ==
  /\ last.op = "fetch" /\ last.err = NoError
  /\ last.start_index = 2 /\ last.end_index = 3
  /\ frames_array[1] = Preallocated /\ frames_array[3] = Preallocated
  /\ frames_array[2] # Preallocated /\ frames_array[magic_pos] = Owner

Unexpected == {T_FLOAT, T_DOUBLE, T_BYTE, T_SHORT, T_CHAR, T_BOOLEAN}
IsPrimitive(v) == v.type # T_OBJECT /\ v.type # T_CONFLICT

\* C16: boxing a collection that holds a floating-point or sub-word slot
\* always fails with InternalDecodeError, on 32-bit and on 64-bit builds;
\* such a slot is never boxed as an int or a long.
C16_UnexpectedTypeFails ==
  (boxed.done /\ \E i \in 1..Len(values) : values[i].type \in Unexpected) =>
    boxed.err = InternalDecodeError

\* C17: on a 64-bit build the PrimitiveSlot at output position i holds the
\* full word of input slot i, for every primitive slot, whatever the slot
\* before it is, slot 0 included.
C17_WideSlotRoundTrips ==
  (boxed.done /\ LP64 /\ boxed.err = NoError) =>
    \A i \in 1..Len(values) :
      IsPrimitive(values[i]) =>
        boxed.array[i] = PrimitiveSlot("long", values[i].word)

C17_Witness ==
  /\ boxed.done /\ LP64 /\ boxed.err = NoError /\ Len(values) = 3
  /\ values[1].type = T_INT /\ values[1].word = -1
  /\ values[2].type = T_CONFLICT
  /\ values[3].type = T_LONG /\ values[3].word = WideWord
  /\ boxed.array[1] = PrimitiveSlot("long", -1)
  /\ boxed.array[3] = PrimitiveSlot("long", WideWord)

\* C18: the boxed array has the length and order of the slots: an object
\* slot yields its reference, a conflict slot a zero PrimitiveSlot of the
\* build's width (long on 64-bit, int on 32-bit), and no position of a
\* conflict or primitive slot is left null.
C18_BoxedArrayShape ==
  (boxed.done /\ boxed.err = NoError) =>
    /\ Len(boxed.array) = Len(values)
    /\ \A i \in 1..Len(values) :
         /\ values[i].type = T_OBJECT => boxed.array[i] = Ref(values[i].obj)
         /\ values[i].type = T_CONFLICT =>
              boxed.array[i] = PrimitiveSlot(IF LP64 THEN "long" ELSE "int", 0)
         /\ values[i].type # T_OBJECT => boxed.array[i] # NullRef

C18_Witness ==
  /\ boxed.done /\ boxed.err = NoError /\ ~LP64 /\ Len(values) = 3
  /\ values[1].type = T_OBJECT /\ values[1].obj = "o1"
  /\ values[2].type = T_CONFLICT
  /\ values[3].type = T_INT /\ values[3].word = 7
  /\ boxed.array = <<Ref("o1"), PrimitiveSlot("int", 0), PrimitiveSlot("int", 7)>>

\* the positions decoded so far
Decoded == {decoded[i] : i \in 1..Len(decoded)}

\* C19: the advance at the start of fetchNextBatch only steps over a frame
\* that an earlier batch decoded, also when setContinuation has re-aimed
\* the stream since the last batch.
C19_AdvanceOnlyPastDecoded ==
  [][\A frame_count \in 1..MaxBatch :
       (/\ last.err = NoError
        /\ FetchNextBatch(Owner, address_value, frame_count, args.start_index)
        /\ \E i \in 1..Len(last'.fill.steps) : last'.fill.steps[i] = "next")
       => stream.pos \in Decoded]_vars

\* the owner resumes an unfinished walk with the token walk gave it
ValidToken ==
  /\ pc = "callback"
  /\ stream.alive
  /\ is_valid_in(stream, Owner, frames_array)
  /\ args.magic = address_value

\* C20: fetchNextBatch with a valid token, when the stream is at its end or
\* frame_count <= 0, returns end_index = start_index and does nothing: no
\* flush, no advance, no write to the buffer, and the guard stays installed
\* and valid.
C20_EmptyBatchIsNoOp ==
  [][\A frame_count \in 0..MaxBatch :
       (/\ ValidToken
        /\ frame_count <= 0 \/ at_end(stream)
        /\ FetchNextBatch(Owner, address_value, frame_count, 1)
        /\ last'.buffer = "given")
       => /\ last'.err = NoError
          /\ last'.end_index = last'.start_index
          /\ last'.fill.steps = <<>>
          /\ last'.fill.written = <<>>
          /\ UNCHANGED <<pc, stream, frames_array, decoded>>
          /\ is_valid_in(stream', Owner, frames_array')]_vars

\* an unexhausted stream was asked for no frames
NoFramesAsked ==
  /\ ValidToken
  /\ last.op = "fetch" /\ last.thread = Owner /\ last.err = NoError
  /\ last.buffer = "given"
  /\ ~at_end(stream) /\ last.frame_count = 0
  /\ last.end_index = last.start_index

\* an exhausted stream was asked for more frames
C20_Witness ==
  /\ ValidToken
  /\ last.op = "fetch" /\ last.thread = Owner /\ last.err = NoError
  /\ last.buffer = "given"
  /\ at_end(stream) /\ last.frame_count > 0
  /\ last.fill.steps = <<>>
  /\ last.end_index = last.start_index

Drop(seq, n) == SubSeq(seq, n + 1, Len(seq))
Elements(seq) == {seq[i] : i \in 1..Len(seq)}
\* the stream as walk built it, and the frames it yields
WalkStart == NewStream(args.mode, stream.cont_scope, args.continuation)
WalkPath == Path(WalkStart)
\* the leading run of walker frames among the frames a cursor yields
RECURSIVE DriverPrefix(_)
DriverPrefix(path) ==
  IF path = <<>> \/ ~IsDriver(stack[path[1]].holder) THEN <<>>
  ELSE <<path[1]>> \o DriverPrefix(Tail(path))
LeadingDrivers == DriverPrefix(WalkPath)
\* where a cursor that yields `path` stands
Current(path) == IF path = <<>> THEN 0 ELSE path[1]

\* C21 as stated: no frame of the leading run of walker frames is ever
\* decoded during the walk.
C21_DriversNeverDecoded ==
  pc # "init" => Decoded \cap Elements(LeadingDrivers) = {}

\* C21: walk first passes over the whole leading run of frames of
\* StackWalker, AbstractStackWalker and the direct subclasses of
\* AbstractStackWalker, then over skip_frames further frames, and starts its
\* fill there; no frame of the leading run is decoded by walk, nor by a later
\* batch unless setContinuation has re-aimed the stream; walker frames below
\* the first other frame are decoded like any frame.
C21_DriversSkippedFirst ==
  /\ (last.op = "walk" /\ last.err # Crash) =>
       last.fill.cursor.pos =
         Current(Drop(WalkPath, Len(LeadingDrivers) + args.skip_frames))
  /\ (pc # "init" /\ rebinds = 0) =>
       Decoded \cap Elements(LeadingDrivers) = {}

\* a walker frame was passed over and a walker frame below an application
\* frame was decoded
C21_Witness ==
  /\ last.op = "walk" /\ last.err = NoError /\ args.skip_frames = 0
  /\ LeadingDrivers = <<1>> /\ Len(stack) = 3
  /\ IsDriver(stack[3].holder)
  /\ decoded = <<2, 3>>

\* C22: walk calls doStackWalk only when its first fill raised no error,
\* with the guard installed, and never a second time; doStackWalk receives
\* the address of the stream as the token, the caller's skip_frames,
\* frame_count and start_index, and end_index = start_index + the number of
\* frames the first fill wrote.
C22_CallbackArguments ==
  [][/\ (pc' = "callback" /\ pc # "callback") => pc = "init"
     /\ \A mode \in Modes, skip_frames \in 0..MaxSkip,
           frame_count \in 1..MaxBatch, start_index \in 1..MaxStart,
           cont \in 0..NumConts, cont_scope \in Scopes \cup {NULL} :
          Walk(mode, skip_frames, cont_scope, cont, frame_count, start_index) =>
            /\ pc' = "callback" <=> last'.err = NoError
            /\ pc' = "callback" =>
                 /\ is_valid_in(stream', Owner, frames_array')
                 /\ args'.magic = address_of(stream')
                 /\ args'.skip_frames = skip_frames
                 /\ args'.frame_count = frame_count
                 /\ args'.start_index = start_index
                 /\ args'.end_index = start_index + Len(last'.fill.written)
                 /\ \A i \in 1..Len(last'.fill.written) :
                      frames_array'[start_index + i - 1] # Preallocated]_vars

\* doStackWalk was called with a batch of two frames that starts at slot 2
C22_Witness ==
  /\ pc = "callback" /\ last.op = "walk"
  /\ args.skip_frames = 1 /\ args.frame_count = 2
  /\ args.start_index = 2 /\ args.end_index = 4
  /\ args.magic = address_of(stream)

\* the token `magic` presented by `thread` resolves to the walk's stream
Resolves(thread, magic) ==
  /\ thread = Owner /\ magic = address_of(stream)
  /\ is_valid_in(stream, thread, frames_array)

\* C23: setContinuation with a token that does not resolve fails with
\* CorruptedBuffer and leaves the stream's current frame and continuation
\* alone; with a token that resolves it makes the given continuation the
\* stream's continuation, makes the top frame of that continuation the
\* current frame, and leaves the guard valid, so that the same token
\* resolves again.
C23_RebindContract ==
  [][\A thread \in Threads, magic \in Magics, cont \in 1..NumConts :
       (/\ pc = "callback" /\ stream.alive
        /\ SetContinuation(thread, magic, cont)
        /\ last'.buffer = "given")
       => IF Resolves(thread, magic)
          THEN /\ last'.err = NoError
               /\ stream'.continuation = cont
               /\ stream'.pos = TopFrame(cont)
               /\ is_valid_in(stream', Owner, frames_array')
               /\ pc' = "callback"
          ELSE /\ last'.err = CorruptedBuffer
               /\ stream' = stream]_vars

\* the stream stands on the entry frame of its active continuation
AtBoundary(s) == s.cont # 0 /\ stack[s.pos].entry

\* C24: the advance of a live stream from the entry frame of its active
\* continuation, when the walk has no scope or the continuation's scope is
\* not the walk's, makes the parent the active continuation and moves to the
\* sender frame, which exists; the advance from any other frame leaves the
\* active continuation alone.
C24_LiveAdvanceAtBoundary ==
  [][\A frame_count \in 1..MaxBatch :
       (/\ pc = "callback" /\ stream.kind = "Live"
        /\ FetchNextBatch(Owner, address_value, frame_count, args.start_index)
        /\ \E i \in 1..Len(last'.fill.steps) : last'.fill.steps[i] = "next")
       => LET advanced == last'.fill.cursor
          IN IF AtBoundary(stream)
             THEN (stream.cont_scope = NULL
                     \/ ContScope(stream.cont) # stream.cont_scope) =>
                    /\ advanced.cont = ContParent(stream.cont)
                    /\ advanced.pos = java_sender(stream.pos)
                    /\ ~at_end(advanced)
             ELSE /\ advanced.cont = stream.cont
                  /\ advanced.pos = java_sender(stream.pos)]_vars

\* a live walk scoped to S2 went from the entry frame of a continuation of
\* scope S1 to the frame below it, inside the parent continuation
C24_Witness ==
  /\ stream.kind = "Live" /\ stream.cont_scope = "S2"
  /\ last.op = "fetch" /\ last.err = NoError
  /\ Len(decoded) >= 2
  /\ stack[decoded[Len(decoded) - 1]].entry
  /\ stack[decoded[Len(decoded) - 1]].scope = "S1"
  /\ decoded[Len(decoded)] = decoded[Len(decoded) - 1] + 1
  /\ last.fill.written = <<decoded[Len(decoded)]>>
  /\ last.fill.cursor.cont = 2

\* C25: whenever a class-only stream advances, on any arrangement of
\* frames, it inspects the method of a frame it stands on, never that of an
\* exhausted stream, and it ends up either exhausted or on a frame that is
\* not a continuation-entry frame.
C25_ClassOnlyAdvance ==
  [][\A frame_count \in 1..MaxBatch :
       (/\ pc = "callback" /\ stream.kind = "Java"
        /\ FetchNextBatch(Owner, address_value, frame_count, args.start_index)
        /\ \E i \in 1..Len(last'.fill.steps) : last'.fill.steps[i] = "next")
       => LET advanced == last'.fill.cursor
          IN /\ ~at_end(vfst_next(stream))
             /\ at_end(advanced) \/ ~stack[advanced.pos].entry]_vars

\* C26: a fill that returns with max_nframes frames leaves the stream on the
\* last frame it wrote; a fill that returns with fewer frames and without an
\* exception of its own leaves the stream exhausted.
C26_FillStopsOnLastDecoded ==
  (LastIsFill /\ last.err \in {NoError, DecodeFailure}) =>
    IF last.fill.n = last.frame_count
    THEN stream.pos = last.fill.written[last.fill.n]
    ELSE last.fill.n < last.frame_count /\ at_end(stream)

\* a full batch ended above the bottom of the stack
C26_Witness ==
  /\ LastIsFill /\ last.op = "fetch" /\ last.err = NoError
  /\ last.frame_count = 2 /\ last.fill.n = 2
  /\ stream.pos = last.fill.written[2] /\ stream.pos < Len(stack)

\* a batch ended short at the bottom of the stack
ShortBatch ==
  /\ LastIsFill /\ last.op = "fetch" /\ last.err = NoError
  /\ last.frame_count = 2 /\ last.fill.n = 1 /\ at_end(stream)

\* both walks are suspended, each with a buffer of its own
TwoWalksSuspended ==
  pc = "callback" /\ nested.pc = "callback" /\ ~nested.shared

\* the token of one walk goes with the buffer of the other
Crossed(magic, which) ==
  \/ magic = address_value /\ which = "inner"
  \/ magic = other_address /\ which = "outer"

\* C27: while two walks of one thread are suspended with different buffers,
\* fetchNextBatch and setContinuation given the token of one walk and the
\* buffer of the other fail with CorruptedBuffer and change neither walk.
C27_WalksIsolated ==
  [][\A magic \in Tokens, which \in Buffers :
       (/\ TwoWalksSuspended /\ Crossed(magic, which)
        /\ \/ \E frame_count \in 1..MaxBatch :
                FetchNextBatchOn(magic, which, frame_count)
           \/ \E cont \in 1..NumConts : SetContinuationOn(magic, which, cont)
        /\ nested'.call = [magic |-> magic, buffer |-> which])
       => /\ last'.err = CorruptedBuffer
          /\ UNCHANGED <<stream, frames_array>>
          /\ nested'.stream = nested.stream
          /\ nested'.frames_array = nested.frames_array]_vars

\* the second walk was given the buffer of the first, called its
\* doStackWalk and has returned, and the first walk is still suspended
NestedRanInSameBuffer ==
  pc = "callback" /\ nested.pc = "done" /\ nested.shared

\* C28: once a second walk that used the buffer of the first has run to its
\* end inside the first doStackWalk, slot 0 of the buffer is wiped: every
\* fetchNextBatch and setContinuation of the first walk fails with
\* CorruptedBuffer and changes nothing, and when the first doStackWalk
\* returns normally walk ends with CorruptedBuffer.
C28_NestedTeardownWipesGuard ==
  [][NestedRanInSameBuffer =>
       /\ frames_array[magic_pos] = NULL
       /\ \A magic \in Tokens, which \in Buffers :
            (/\ \/ \E frame_count \in 1..MaxBatch :
                     FetchNextBatchOn(magic, which, frame_count)
                \/ \E cont \in 1..NumConts :
                     SetContinuationOn(magic, which, cont)
             /\ nested'.call = [magic |-> magic, buffer |-> which])
            => /\ last'.err = CorruptedBuffer
               /\ UNCHANGED <<pc, stream, frames_array, decoded>>
       /\ \A result \in Results :
            DoStackWalkReturns(FALSE, result) =>
              /\ last'.err = CorruptedBuffer
              /\ last'.result = NULL]_vars

\* the first walk was resumed in vain after the second had returned, and
\* ended with CorruptedBuffer although both callbacks returned normally
C28_Witness ==
  /\ pc = "done" /\ last.op = "return" /\ last.err = CorruptedBuffer
  /\ nested.pc = "done" /\ nested.shared /\ nested.err = NoError
  /\ nested.call = [magic |-> address_value, buffer |-> "outer"]
  /\ ~at_end(stream)

\* C29: when doStackWalk ends with an exception, walk still clears the
\* guard and ends with that exception, also when the guard was no longer
\* valid as it was cleared; walk ends with CorruptedBuffer at its teardown
\* only when doStackWalk returned normally.
C29_CallbackErrorFirst ==
  [][\A thrown \in BOOLEAN, result \in Results :
       DoStackWalkReturns(thrown, result) =>
         /\ frames_array'[magic_pos] = NULL /\ stream'.anchor = 0
         /\ last'.ok = check_magic(stream, frames_array)
         /\ thrown => last'.err = OrchestrationError /\ last'.result = NULL
         /\ last'.err = CorruptedBuffer => ~thrown /\ ~last'.ok]_vars

\* doStackWalk threw after the reserved slot had been overwritten
C29_Witness ==
  /\ pc = "done" /\ last.op = "return"
  /\ last.err = OrchestrationError /\ ~last.ok
  /\ frames_array[magic_pos] = NULL

\* the buffer as the caller of walk prepared it
CallerBuffer ==
  [i \in 0..(BufLen - 1) |-> IF i = magic_pos THEN Unfilled ELSE Preallocated]

FirstFillErrors ==
  {DecodeFailure, UnsupportedCallerSensitive, InternalDecodeError}

\* C30: when the first fill of walk fails, with DecodeFailure,
\* UnsupportedCallerSensitive or InternalDecodeError, the guard is not
\* installed (slot 0 holds what the caller left there), doStackWalk is not
\* called, and after UnsupportedCallerSensitive no slot of the buffer has
\* been written.
C30_FailedFirstFill ==
  (last.op = "walk" /\ last.err \in FirstFillErrors) =>
    /\ pc = "done"
    /\ frames_array[magic_pos] = Unfilled
    /\ stream.anchor = 0 /\ ~stream.alive
    /\ args.magic = 0
    /\ last.err = UnsupportedCallerSensitive => frames_array = CallerBuffer

\* boxing the locals of the first frame failed after the frame's slot had
\* been filled
C30_Witness ==
  /\ last.op = "walk" /\ last.err = InternalDecodeError
  /\ pc = "done" /\ frames_array[magic_pos] = Unfilled
  /\ frames_array # CallerBuffer

\* the first fill met a caller-sensitive frame below a hidden one
FirstFillCallerSensitive ==
  /\ last.op = "walk" /\ last.err = UnsupportedCallerSensitive
  /\ last.fill.cursor.pos = 1 /\ stack[1].hidden

\* the first fill found hidden frames only
FirstFillDecodeFailure ==
  last.op = "walk" /\ last.err = DecodeFailure /\ Len(stack) = 2

\* the retained frames of a walk called with `a` and continuation scope
\* `scope`: those its stream yields below the leading run of walker frames
\* and the skip_frames skipped frames, that have a method and are not
\* suppressed
RetainedOf(a, scope) ==
  LET path == Path(NewStream(a.mode, scope, a.continuation))
  IN SelectSeq(Drop(path, Len(DriverPrefix(path)) + a.skip_frames),
               LAMBDA p : Kept(a.mode, p))
Retained == RetainedOf(args, stream.cont_scope)

\* the retained frames stream `s` has still to yield, when it stands on the
\* last decoded frame or at its end
StillToCome(mode, s) ==
  IF at_end(s) THEN <<>> ELSE KeptPath(mode, stream_next(s))

\* the batches so far, followed by what is still to come, are the retained
\* frames of the walk
NothingOmitted(d, s, a) ==
  d \o StillToCome(a.mode, s) = RetainedOf(a, s.cont_scope)

\* C31: in a walk without setContinuation and without error, the first
\* batch and the batches of the fetchNextBatch calls that follow, taken
\* together, are the retained frames of the walk in order: walk leaves
\* nothing out before or in its first batch, every fetchNextBatch that ends
\* without error goes on where the batch before it stopped, and so a stream
\* that has reached its end has yielded exactly the retained frames,
\* whatever the batch sizes.
C31_BatchesComplete ==
  [][\A d \in {decoded'}, s \in {stream'}, a \in {args'} :
       /\ \A mode \in Modes, skip_frames \in 0..MaxSkip,
             frame_count \in 1..MaxBatch, start_index \in 1..MaxStart,
             cont \in 0..NumConts, cont_scope \in Scopes \cup {NULL} :
            (/\ Walk(mode, skip_frames, cont_scope, cont, frame_count,
                     start_index)
             /\ last'.err = NoError)
            => NothingOmitted(d, s, a)
       /\ \A frame_count \in 1..MaxBatch :
            (/\ pc = "callback" /\ rebinds = 0
             /\ NothingOmitted(decoded, stream, args)
             /\ FetchNextBatch(Owner, address_value, frame_count,
                               args.start_index)
             /\ last'.err = NoError)
            => /\ NothingOmitted(d, s, a)
               /\ at_end(s) => d = RetainedOf(a, s.cont_scope)]_vars

\* three batches of one frame each were taken from a stack with a hidden
\* frame in it, and a fourth call found the stream at its end
C31_Witness ==
  /\ pc = "callback" /\ rebinds = 0 /\ at_end(stream)
  /\ last.op = "fetch" /\ last.err = NoError /\ last.frame_count = 1
  /\ SuppressionInEffect(args.mode)
  /\ Len(stack) = 3 /\ stack[2].hidden
  /\ decoded = <<1, 3>> /\ decoded = Retained
  /\ last.fill.written = <<>>

\* the frames stream `s` has still to yield, the one it stands on included
Remaining(s) == Len(Path(s))

\* C32: a fetchNextBatch for at least one frame on a stream that is not at
\* its end leaves the stream at least one frame deeper or at its end,
\* whether it throws or not, so that fewer frames remain for the stream to
\* yield than before; never more frames remain than the stack has; and the
\* loop that calls fetchNextBatch until a call throws or returns an empty
\* batch comes to its end.
C32_LoopTerminates ==
  /\ [][\A s \in {stream'} :
          /\ Remaining(s) <= Len(stack)
          /\ \A frame_count \in 1..MaxBatch :
               (/\ ~at_end(stream)
                /\ FetchNextBatch(Owner, address_value, frame_count,
                                  args.start_index))
               => /\ at_end(s) \/ s.pos > stream.pos
                  /\ Remaining(s) < Remaining(stream)
                  /\ last'.err # Crash]_vars
  /\ (pc = "callback") ~> LoopEnded

\* the loop took three calls on a stack of three frames: two batches of one
\* frame and an empty one
C32_Witness ==
  /\ pc = "callback" /\ LoopEnded /\ last.op = "fetch" /\ last.err = NoError
  /\ Len(stack) = 3 /\ decoded = <<1, 2, 3>> /\ args.frame_count = 1
  /\ last.frame_count = 1 /\ at_end(stream)

\* the loop ended with a call that threw after it had advanced the stream
LoopEndedByError ==
  /\ pc = "callback" /\ last.op = "fetch"
  /\ last.err \in {DecodeFailure, UnsupportedCallerSensitive}
  /\ Len(decoded) >= 1

\* the frames the stream of the walk yields below the leading run of walker
\* frames, hidden and method-less ones included
BelowDrivers == Drop(WalkPath, Len(LeadingDrivers))

\* the frames among `path` that a fill retains
KeptOf(path) == SelectSeq(path, LAMBDA p : Kept(args.mode, p))

\* C33: the skip loop of walk passes over skip_frames frames as the stream
\* yields them, a hidden frame or a frame without a method counting like
\* any other, and the first fill starts on the frame after them; the batch
\* size counts retained frames only.  The first batch is therefore taken
\* from the retained frames that are left once the skip_frames top-most
\* frames are removed from the unfiltered frames.
C33_SkipCountsRawFrames ==
  (last.op = "walk" /\ last.err \in {NoError, DecodeFailure,
                                     UnsupportedCallerSensitive}) =>
    LET raw == Drop(BelowDrivers, args.skip_frames)
    IN /\ last.fill.cursor.pos = Current(raw)
       /\ last.err = NoError =>
            last.fill.written = Take(KeptOf(raw), last.frame_count)

\* a hidden frame and a frame without a method were skipped as the two
\* requested frames, and the frame below them is reported; a walk with
\* skip_frames = 0 would have reported that frame alone
C33_Witness ==
  /\ last.op = "walk" /\ last.err = NoError
  /\ SuppressionInEffect(args.mode)
  /\ args.skip_frames = 2
  /\ Len(stack) = 3 /\ stack[1].hidden /\ ~stack[2].method
  /\ BelowDrivers = <<1, 2, 3>>
  /\ last.fill.cursor.pos = 3 /\ last.fill.written = <<3>>
  /\ KeptOf(BelowDrivers) = <<3>>

\* a hidden top frame was skipped as the one requested frame: the walk
\* reports the two frames below it, which are what a walk with
\* skip_frames = 0 would have reported
SkippedHidden ==
  /\ last.op = "walk" /\ last.err = NoError
  /\ SuppressionInEffect(args.mode)
  /\ args.skip_frames = 1 /\ args.frame_count = 2
  /\ Len(stack) = 3 /\ stack[1].hidden /\ LeadingDrivers = <<>>
  /\ last.fill.written = <<2, 3>>
  /\ last.fill.written = KeptOf(BelowDrivers)
====
